---- MODULE Spec2Model ----
(***************************************************************************)
(* HashMap<Key, Value, Hash> of src/hashmap.h: an open-addressed table     *)
(* with Robin Hood displacement (table_) over an insertion-ordered list of *)
(* entries (items_).                                                       *)
(*                                                                         *)
(* Modelling conventions                                                   *)
(*  - items_ is the std::list<BucketItem>, a sequence of records           *)
(*    [key, value, distance_to_ideal, id_in_table] in list order.          *)
(*  - A list iterator is denoted by the key of the node it points at; the  *)
(*    past-the-end iterator items_.end() is END.  Dereferencing goes       *)
(*    through the list (Node), never through the name.                     *)
(*  - table_ is the std::vector<ListIterator>; slot h of the code is       *)
(*    table[h + 1] here (TLA+ sequences start at 1).                       *)
(*  - Key = Value = integer, Hash = identity (std::hash of an integer).    *)
(***************************************************************************)
EXTENDS Integers, Sequences, FiniteSets, TLC

\* ------------------------------------------------------------------ bounds
\* Number of keys the operations draw from.
NumKeys == 2
\* Length of the initializer list of the constructed (non-empty) initial map.
NumFill == 21
\* Number of table growths whose sizes the growth-policy specification covers.
MaxGrowths == 20
\* Half-width of the window of entry counts around 0.6 * table size that the
\* growth-policy specification explores.
Window == 4

\* --------------------------------------------------------------- constants
START_BUCKET_COUNT == 37

\* items_.end(), and the absent payload of a call that has none.
END == -1

\* MAX_LOAD_FACTOR is declared float: 0.6 rounds to the nearest binary32
\* value 5033165 / 2^23, and that value is what the double comparison in
\* rehash_if_needed reads.
MAX_LOAD_FACTOR == [num |-> 5033165, den |-> 8388608]

\* An upper bound of the distance between consecutive primes below 2^31.
MaxPrimeGap == 400

\* Value{} of operator[].
DefaultValue == 0

Values == {0, 1}

\* The keys of the operations: all share the ideal slot 36 in a table of 37
\* and in a table of 79 (37 * 79 = 2923), so that they collide and wrap.
KeyOf(i) == 36 + 2923 * (i - 1)

Keys == {KeyOf(i) : i \in 1..NumKeys}

\* The keys of the initializer list.  The first Adjacent of them have the
\* ideal slots 0, 1, ... in a table of 37 (right after the wrap of the run
\* that starts at slot 36) and 37, 38, ... in a table of 79 (right after slot
\* 36), so that insertions at slot 36 displace them and erasures shift them
\* back; the others have the ideal slots Adjacent + 1, Adjacent + 2, ... in
\* both tables, one empty slot after the first ones in a table of 37, so
\* that a displaced run comes to lie against entries in their ideal slots.
Adjacent == 3

FillKey(j) == IF j <= Adjacent THEN START_BUCKET_COUNT + (j - 1) ELSE j

FillItems == [j \in 1..NumFill |-> [key |-> FillKey(j), value |-> 1]]

AllKeys == Keys \cup {FillKey(j) : j \in 1..NumFill}

VARIABLES items_, table_, it, last, abs, count, table_size, other

vars == <<items_, table_, it, last, abs, count, table_size, other>>

\* ------------------------------------------------------------------ helpers
hasher_(key) == key

\* `e`, once `v` has been evaluated.  TLC evaluates operator arguments and
\* LET definitions on first use; sequencing the steps of a loop as the
\* code runs them keeps its evaluation stack shallow.  Then(v, e) = e.
Then(v, e) == IF v = v THEN e ELSE e

\* Position in the list of the node an iterator denotes.
Pos(items, node) == CHOOSE i \in 1..Len(items) : items[i].key = node

\* *iterator
Node(items, node) == items[Pos(items, node)]

\* size()
size(items) == Len(items)

\* empty()
empty(items) == size(items) = 0

\* begin(): the first node of the list, end() when the list has none.
begin(items) == IF Len(items) = 0 THEN END ELSE items[1].key

\* The (key, value) pairs begin()..end() yields, in order.
Iterate(items) == [i \in 1..Len(items) |-> [key |-> items[i].key, value |-> items[i].value]]

\* ------------------------------------------------------------------ find
\* The lookup loop that stops at the key alone and not at an empty slot: for
\* a key that is absent it has gone once around the table, and goes on.
RECURSIVE FindLoop_until_key(_, _, _, _, _)
FindLoop_until_key(items, table, key, hash, steps) ==
    IF \A i \in 1..Len(items) : items[i].key # key
    THEN [node |-> END, steps |-> Len(table)]
    ELSE IF table[hash + 1] # END /\ Node(items, table[hash + 1]).key = key
         THEN [node |-> table[hash + 1], steps |-> steps]
         ELSE FindLoop_until_key(items, table, key, (hash + 1) % Len(table), steps + 1)

RECURSIVE FindLoop(_, _, _, _, _)
FindLoop(items, table, key, hash, steps) ==
    IF table[hash + 1] = END \/ Node(items, table[hash + 1]).key = key
    THEN [node |-> table[hash + 1], steps |-> steps]
    ELSE FindLoop(items, table, key, (hash + 1) % Len(table), steps + 1)

find(items, table, key) == FindLoop(items, table, key, hasher_(key) % Len(table), 0).node

\* ------------------------------------------------------------ growth policy
\* static_cast<double>(n) / T < MAX_LOAD_FACTOR, decided exactly.  The
\* quotient is compared with 5033165 / 2^23; since 5 * 5033165 = 3 * 2^23 + 1,
\* n / T < 5033165 / 2^23 is 2^23 * (5 * n - 3 * T) < T.  (Rounding of the
\* double quotient cannot change the outcome for T < 2^31, and k >= 256 makes
\* the left side exceed every such T.)
BelowMaxLoad(n, T) ==
    LET k == 5 * n - 3 * T
    IN  k <= 0 \/ (k < 256 /\ k * MAX_LOAD_FACTOR.den < T)

\* The largest r with r * r <= n, for lo * lo <= n < hi * hi.
RECURSIVE ISqrt(_, _, _)
ISqrt(n, lo, hi) ==
    IF hi - lo <= 1 THEN lo
    ELSE LET mid == (lo + hi) \div 2
         IN  IF mid * mid <= n THEN ISqrt(n, mid, hi) ELSE ISqrt(n, lo, mid)

\* The inner loop: no div with div * div <= n divides n.
IsPrime(n) == \A div \in 2..ISqrt(n, 1, 46341) : n % div # 0

\* The outer loop: the first prime at or after min_bucket_count.  (No two
\* consecutive primes below 2^31 are MaxPrimeGap apart, so the loop ends
\* within that many rounds.)
FirstPrimeFrom(min_bucket_count) ==
    CHOOSE p \in min_bucket_count..(min_bucket_count + MaxPrimeGap) :
        IsPrime(p) /\ \A q \in min_bucket_count..(p - 1) : ~IsPrime(q)

\* Whether rehash_if_needed goes on to rehash with `n` entries in a table of T.
NeedsRehash(n, T) == ~BelowMaxLoad(n + 1, T)

NewBucketCount(T) == FirstPrimeFrom(T * 2)

\* -------------------------------------------------------- insert and rehash
\* A table of n slots, each items_.end().
EmptyTable(n) == [h \in 1..n |-> END]

SetField(items, node, f, v) == [items EXCEPT ![Pos(items, node)] = [@ EXCEPT ![f] = v]]

\* The placement loop that does not record the slot of an entry it swaps in.
RECURSIVE InsertLoop_stale_id(_, _, _, _, _)
InsertLoop_stale_id(items, table, hash, list_iterator, steps) ==
    IF table[hash + 1] = END
    THEN [items |-> SetField(items, list_iterator, "id_in_table", hash),
          table |-> [table EXCEPT ![hash + 1] = list_iterator],
          steps |-> steps]
    ELSE LET occupant == table[hash + 1]
             swap == Node(items, occupant).distance_to_ideal
                         < Node(items, list_iterator).distance_to_ideal
             carried == IF swap THEN occupant ELSE list_iterator
             table1 == IF swap THEN [table EXCEPT ![hash + 1] = list_iterator] ELSE table
             items2 == SetField(items, carried, "distance_to_ideal",
                                Node(items, carried).distance_to_ideal + 1)
         IN  InsertLoop_stale_id(items2, table1, (hash + 1) % Len(table), carried, steps + 1)

\* The placement loop of plain linear probing: the new entry never takes the
\* slot of an occupant and goes on to the first empty slot.
RECURSIVE InsertLoop_linear(_, _, _, _, _)
InsertLoop_linear(items, table, hash, list_iterator, steps) ==
    IF table[hash + 1] = END
    THEN [items |-> SetField(items, list_iterator, "id_in_table", hash),
          table |-> [table EXCEPT ![hash + 1] = list_iterator],
          steps |-> steps]
    ELSE LET items2 == SetField(items, list_iterator, "distance_to_ideal",
                                Node(items, list_iterator).distance_to_ideal + 1)
         IN  InsertLoop_linear(items2, table, (hash + 1) % Len(table), list_iterator, steps + 1)

\* The Robin Hood placement loop and the final placement.  list_iterator is
\* the entry being carried; `steps` counts the slots passed over.
RECURSIVE InsertLoop(_, _, _, _, _)
InsertLoop(items, table, hash, list_iterator, steps) ==
    IF table[hash + 1] = END
    THEN [items |-> SetField(items, list_iterator, "id_in_table", hash),
          table |-> [table EXCEPT ![hash + 1] = list_iterator],
          steps |-> steps]
    ELSE LET occupant == table[hash + 1]
             swap == Node(items, occupant).distance_to_ideal
                         < Node(items, list_iterator).distance_to_ideal
             carried == IF swap THEN occupant ELSE list_iterator
             table1 == IF swap THEN [table EXCEPT ![hash + 1] = list_iterator] ELSE table
             items1 == IF swap THEN SetField(items, list_iterator, "id_in_table", hash)
                       ELSE items
             items2 == SetField(items1, carried, "distance_to_ideal",
                                Node(items1, carried).distance_to_ideal + 1)
         IN  InsertLoop(items2, table1, (hash + 1) % Len(table), carried, steps + 1)

\* Place with the entry emplaced at items_.begin() instead of items_.end().
Place_front(items, table, x) ==
    LET items1 == <<[key |-> x.key, value |-> x.value,
                     distance_to_ideal |-> 0, id_in_table |-> 0]>> \o items
    IN  InsertLoop(items1, table, hasher_(x.key) % Len(table), x.key, 0)

\* items_.emplace(items_.end(), x, 0, 0) and the placement.
Place(items, table, x) ==
    LET items1 == Append(items, [key |-> x.key, value |-> x.value,
                                 distance_to_ideal |-> 0, id_in_table |-> 0])
    IN  InsertLoop(items1, table, hasher_(x.key) % Len(table), x.key, 0)

RECURSIVE insert(_, _, _)
\* The loop `for (item : old_items) insert(item.data)`, from item i on.
RECURSIVE ReinsertAll(_, _, _)
ReinsertAll(st, old_items, i) ==
    IF i > Len(old_items) THEN st
    ELSE LET r == insert(st.items, st.table,
                         [key |-> old_items[i].key, value |-> old_items[i].value])
             st1 == [items |-> r.items, table |-> r.table,
                     destroyed |-> st.destroyed \cup r.destroyed,
                     rehashes |-> st.rehashes + r.rehashes,
                     steps |-> st.steps + r.steps]
         IN  Then(st1, ReinsertAll(st1, old_items, i + 1))

\* Rehash that reinserts old_items back to front.
Rehash_reversed(items, table) ==
    LET old_items == [i \in 1..Len(items) |-> items[Len(items) + 1 - i]]
        st == ReinsertAll([items |-> <<>>, table |-> EmptyTable(NewBucketCount(Len(table))),
                           destroyed |-> {}, rehashes |-> 0, steps |-> 0],
                          old_items, 1)
    IN  [st EXCEPT !.destroyed = @ \cup {old_items[i].key : i \in 1..Len(old_items)},
                   !.rehashes = @ + 1]

\* Rehash that leaves the entries in items_ (no move into old_items) and
\* inserts each of them once more.
Rehash_keep_items(items, table) ==
    LET old_items == items
        st == ReinsertAll([items |-> items, table |-> EmptyTable(NewBucketCount(Len(table))),
                           destroyed |-> {}, rehashes |-> 0, steps |-> 0],
                          old_items, 1)
    IN  [st EXCEPT !.rehashes = @ + 1]

\* old_items takes the list over and is destroyed when the function returns:
\* every node the map held before is destroyed, and the entries are created
\* anew by the inner insert calls.
Rehash(items, table) ==
    LET old_items == items
        st == ReinsertAll([items |-> <<>>, table |-> EmptyTable(NewBucketCount(Len(table))),
                           destroyed |-> {}, rehashes |-> 0, steps |-> 0],
                          old_items, 1)
    IN  [st EXCEPT !.destroyed = @ \cup {old_items[i].key : i \in 1..Len(old_items)},
                   !.rehashes = @ + 1]

rehash_if_needed(items, table) ==
    IF ~NeedsRehash(size(items), Len(table))
    THEN [items |-> items, table |-> table, destroyed |-> {}, rehashes |-> 0, steps |-> 0]
    ELSE Rehash(items, table)

\* insert that assigns the value when the key is present (insert-or-assign).
insert_or_assign(items, table, x) ==
    IF find(items, table, x.key) # END
    THEN [items |-> SetField(items, find(items, table, x.key), "value", x.value),
          table |-> table, destroyed |-> {}, rehashes |-> 0, steps |-> 0]
    ELSE LET g == rehash_if_needed(items, table)
             p == Place(g.items, g.table, x)
         IN  [items |-> p.items, table |-> p.table, destroyed |-> g.destroyed,
              rehashes |-> g.rehashes, steps |-> g.steps + p.steps]

\* insert(x): the map afterwards, the nodes destroyed on the way, the number
\* of rehashes run (nested ones included) and the placement steps taken.
insert(items, table, x) ==
    IF find(items, table, x.key) # END
    THEN [items |-> items, table |-> table, destroyed |-> {}, rehashes |-> 0, steps |-> 0]
    ELSE LET g == rehash_if_needed(items, table)
             p == Place(g.items, g.table, x)
         IN  [items |-> p.items, table |-> p.table, destroyed |-> g.destroyed,
              rehashes |-> g.rehashes, steps |-> g.steps + p.steps]

\* ------------------------------------------------------------------- erase
RemoveAt(items, i) == SubSeq(items, 1, i - 1) \o SubSeq(items, i + 1, Len(items))

\* The backward shift that moves entries without lowering their displacement.
RECURSIVE EraseLoop_keep_distance(_, _, _, _)
EraseLoop_keep_distance(items, table, hash, steps) ==
    LET next_hash == (hash + 1) % Len(table)
        mover == table[next_hash + 1]
    IN  IF mover # END /\ Node(items, mover).distance_to_ideal > 0
        THEN LET table1 == [table EXCEPT ![hash + 1] = mover, ![next_hash + 1] = table[hash + 1]]
                 items1 == SetField(items, mover, "id_in_table", hash)
             IN  EraseLoop_keep_distance(items1, table1, next_hash, steps + 1)
        ELSE [items |-> items, table |-> table, steps |-> steps]

\* The backward shift that moves the next entry alone (an `if` for the `while`).
EraseLoop_single(items, table, hash, steps) ==
    LET next_hash == (hash + 1) % Len(table)
        mover == table[next_hash + 1]
    IN  IF mover # END /\ Node(items, mover).distance_to_ideal > 0
        THEN LET table1 == [table EXCEPT ![hash + 1] = mover, ![next_hash + 1] = table[hash + 1]]
                 items1 == SetField(items, mover, "id_in_table", hash)
                 items2 == SetField(items1, mover, "distance_to_ideal",
                                    Node(items1, mover).distance_to_ideal - 1)
             IN  [items |-> items2, table |-> table1, steps |-> steps + 1]
        ELSE [items |-> items, table |-> table, steps |-> steps]

\* The backward-shift loop; slot `hash` is the empty one.
RECURSIVE EraseLoop(_, _, _, _)
EraseLoop(items, table, hash, steps) ==
    LET next_hash == (hash + 1) % Len(table)
        mover == table[next_hash + 1]
    IN  IF mover # END /\ Node(items, mover).distance_to_ideal > 0
        THEN LET table1 == [table EXCEPT ![hash + 1] = mover, ![next_hash + 1] = table[hash + 1]]
                 items1 == SetField(items, mover, "id_in_table", hash)
                 items2 == SetField(items1, mover, "distance_to_ideal",
                                    Node(items1, mover).distance_to_ideal - 1)
             IN  EraseLoop(items2, table1, next_hash, steps + 1)
        ELSE [items |-> items, table |-> table, steps |-> steps]

\* erase(iterator) without the backward shift: the slot is emptied and the
\* entries displaced past it stay where they are.
erase_iterator_no_shift(items, table, inner_iter) ==
    LET hash == Node(items, inner_iter).id_in_table
    IN  [items |-> RemoveAt(items, Pos(items, inner_iter)),
         table |-> [table EXCEPT ![hash + 1] = END],
         destroyed |-> {inner_iter}, steps |-> 0]

\* erase(iterator), for an iterator to a live node of this map.
erase_iterator(items, table, inner_iter) ==
    LET hash == Node(items, inner_iter).id_in_table
        items1 == RemoveAt(items, Pos(items, inner_iter))
        table1 == [table EXCEPT ![hash + 1] = END]
        r == EraseLoop(items1, table1, hash, 0)
    IN  [items |-> r.items, table |-> r.table, destroyed |-> {inner_iter}, steps |-> r.steps]

\* erase(key) that takes the entry in the ideal slot of `key` for the entry
\* of `key`, without the lookup.
erase_ideal_slot(items, table, key) ==
    LET found == table[(hasher_(key) % Len(table)) + 1]
    IN  IF found # END THEN erase_iterator(items, table, found)
        ELSE [items |-> items, table |-> table, destroyed |-> {}, steps |-> 0]

\* erase(key)
erase(items, table, key) ==
    LET found == find(items, table, key)
    IN  IF found # END THEN erase_iterator(items, table, found)
        ELSE [items |-> items, table |-> table, destroyed |-> {}, steps |-> 0]

\* clear() that starts the map over: no entries, START_BUCKET_COUNT slots.
clear_reset(items, table) ==
    [items |-> <<>>, table |-> EmptyTable(START_BUCKET_COUNT),
     destroyed |-> {items[i].key : i \in 1..Len(items)}]

\* clear(): erase(iterator) on every node, front to back.
RECURSIVE clear(_, _)
clear(items, table) ==
    IF Len(items) = 0 THEN [items |-> items, table |-> table, destroyed |-> {}]
    ELSE LET e == erase_iterator(items, table, items[1].key)
             r == clear(e.items, e.table)
         IN  [r EXCEPT !.destroyed = @ \cup e.destroyed]

\* ------------------------------------------------------------ construction
\* HashMap(Hash): no entries, START_BUCKET_COUNT empty slots.
EmptyMap == [items |-> <<>>, table |-> EmptyTable(START_BUCKET_COUNT)]

\* HashMap(initializer_list): the empty map, then insert of each element.
RECURSIVE Construct(_, _)
Construct(elements, n) ==
    IF n = 0 THEN EmptyMap
    ELSE LET m == Construct(elements, n - 1)
             r == insert(m.items, m.table, elements[n])
         IN  Then(m, [items |-> r.items, table |-> r.table])

\* ---------------------------------------------------------------- copying
\* A copy constructor that delegates to HashMap(Hash), as the other
\* constructors do: the copy starts with START_BUCKET_COUNT slots.
copy_construct_default(another) ==
    ReinsertAll([items |-> <<>>, table |-> EmptyTable(START_BUCKET_COUNT),
                 destroyed |-> {}, rehashes |-> 0, steps |-> 0],
                another.items, 1)

\* HashMap(const HashMap& another): an empty list, a table of another's
\* size, then insert of each pair of `another` in its order.  The result
\* carries the number of rehashes these inserts ran.
copy_construct(another) ==
    ReinsertAll([items |-> <<>>, table |-> EmptyTable(Len(another.table)),
                 destroyed |-> {}, rehashes |-> 0, steps |-> 0],
                another.items, 1)

\* operator=(another) for &another # this: the nodes of this map are
\* destroyed, the table is resized to another's size, then the inserts.
copy_assign(this, another) ==
    LET st == ReinsertAll([items |-> <<>>, table |-> EmptyTable(Len(another.table)),
                           destroyed |-> {}, rehashes |-> 0, steps |-> 0],
                          another.items, 1)
    IN  [st EXCEPT !.destroyed = @ \cup {this.items[i].key : i \in 1..Len(this.items)}]

\* ------------------------------------------------------------ state machine
\* items_, table_   the map's two members
\* it               the iterator (or reference) the caller holds: kind is
\*                  "none", "end" or "node"; `valid` turns false when the node
\*                  it points at is destroyed (use of it is then undefined
\*                  behaviour, which the caller's actions below never invoke)
\* last             the call that completed last, with what it returned;
\*                  `steps` is the number of slots its probe loop passed
\*                  over (find and at: the lookup loop; insert and
\*                  operator[]: the placement loops; erase: the shift loop)
\* abs              the abstract map the calls describe: the (key, value)
\*                  pairs in order of insertion
\* count, table_size   size() and table_.size()
\* other            a second HashMap object of the program, with its own
\*                  items_ and table_ (fields items and table)
NoIterator == [kind |-> "none", node |-> END, valid |-> FALSE]

IteratorTo(node) == [kind |-> IF node = END THEN "end" ELSE "node", node |-> node, valid |-> TRUE]

\* What the destruction of the list nodes `destroyed` leaves of an iterator.
Invalidate(i, destroyed) ==
    IF i.kind = "node" /\ i.node \in destroyed THEN [i EXCEPT !.valid = FALSE] ELSE i

Call(op, key, value) ==
    [op |-> op, key |-> key, value |-> value, hit |-> FALSE, grew |-> FALSE,
     threw |-> FALSE, ret |-> END, reinsert |-> FALSE, rehashes |-> 0, steps |-> 0]

AbsHas(a, key) == \E i \in 1..Len(a) : a[i].key = key

AbsValue(a, key) == a[CHOOSE i \in 1..Len(a) : a[i].key = key].value

AbsRemove(a, key) == SelectSeq(a, LAMBDA e : e.key # key)

AbsSet(a, key, value) == [i \in 1..Len(a) |-> IF a[i].key = key THEN [a[i] EXCEPT !.value = value] ELSE a[i]]

SetMap(items, table) ==
    /\ items_' = items
    /\ table_' = table
    /\ count' = size(items)
    /\ table_size' = Len(table)
    /\ UNCHANGED other

\* HashMap() and HashMap{FillItems}.
Init ==
    /\ \E n \in {0, NumFill - 1, NumFill} :
          LET m == Construct(FillItems, n)
          IN  /\ items_ = m.items
              /\ table_ = m.table
              /\ abs = SubSeq(FillItems, 1, n)
              /\ count = size(m.items)
              /\ table_size = Len(m.table)
    /\ it = NoIterator
    /\ last = Call("construct", END, END)
    /\ other = EmptyMap

\* m.insert({k, v})
Insert(k, v) ==
    LET r == insert(items_, table_, [key |-> k, value |-> v])
    IN  /\ SetMap(r.items, r.table)
        /\ it' = Invalidate(it, r.destroyed)
        /\ abs' = IF AbsHas(abs, k) THEN abs ELSE Append(abs, [key |-> k, value |-> v])
        /\ last' = [Call("insert", k, v) EXCEPT
                       !.hit = AbsHas(abs, k),
                       !.grew = Len(r.table) # Len(table_),
                       !.rehashes = r.rehashes,
                       !.steps = r.steps,
                       !.reinsert = last.op \in {"erase", "erase_it"} /\ last.key = k /\ last.hit]

\* m.erase(k) that takes the entry out of the table and leaves it in the list.
EraseKey_unlinked(k) ==
    LET r == erase(items_, table_, k)
    IN  /\ SetMap(IF find(items_, table_, k) = END THEN r.items
                  ELSE [i \in 1..Len(items_) |->
                           IF items_[i].key = k THEN items_[i]
                           ELSE Node(r.items, items_[i].key)],
                  r.table)
        /\ it' = Invalidate(it, r.destroyed)
        /\ abs' = AbsRemove(abs, k)
        /\ last' = [Call("erase", k, END) EXCEPT !.hit = AbsHas(abs, k)]

\* m.erase(k)
EraseKey(k) ==
    LET r == erase(items_, table_, k)
    IN  /\ SetMap(r.items, r.table)
        /\ it' = Invalidate(it, r.destroyed)
        /\ abs' = AbsRemove(abs, k)
        /\ last' = [Call("erase", k, END) EXCEPT !.hit = AbsHas(abs, k), !.steps = r.steps]

\* m.erase(it), for an iterator to a live entry.
EraseIt ==
    /\ it.kind = "node" /\ it.valid
    /\ LET k == Node(items_, it.node).key
           r == erase_iterator(items_, table_, it.node)
       IN  /\ SetMap(r.items, r.table)
           /\ it' = Invalidate(it, r.destroyed)
           /\ abs' = AbsRemove(abs, k)
           /\ last' = [Call("erase_it", k, END) EXCEPT !.hit = AbsHas(abs, k), !.steps = r.steps]

\* it = m.find(k)
Find(k) ==
    /\ it' = IteratorTo(find(items_, table_, k))
    /\ last' = [Call("find", k, END) EXCEPT
                   !.hit = AbsHas(abs, k),
                   !.steps = FindLoop(items_, table_, k, hasher_(k) % Len(table_), 0).steps]
    /\ UNCHANGED <<items_, table_, abs, count, table_size, other>>

\* operator[] that value-initialises the entry on every call.
Index_reset(k) ==
    LET r == insert_or_assign(items_, table_, [key |-> k, value |-> DefaultValue])
        found == find(r.items, r.table, k)
    IN  /\ SetMap(r.items, r.table)
        /\ it' = IteratorTo(found)
        /\ abs' = IF AbsHas(abs, k) THEN abs ELSE Append(abs, [key |-> k, value |-> DefaultValue])
        /\ last' = [Call("index", k, END) EXCEPT
                       !.hit = AbsHas(abs, k),
                       !.grew = Len(r.table) # Len(table_),
                       !.rehashes = r.rehashes,
                       !.ret = Node(r.items, found).value]

\* Value& ref = m[k]; the caller keeps the reference in `it`.
Index(k) ==
    LET r == insert(items_, table_, [key |-> k, value |-> DefaultValue])
        found == find(r.items, r.table, k)
    IN  /\ SetMap(r.items, r.table)
        /\ it' = IteratorTo(found)
        /\ abs' = IF AbsHas(abs, k) THEN abs ELSE Append(abs, [key |-> k, value |-> DefaultValue])
        /\ last' = [Call("index", k, END) EXCEPT
                       !.hit = AbsHas(abs, k),
                       !.grew = Len(r.table) # Len(table_),
                       !.rehashes = r.rehashes,
                       !.steps = r.steps,
                       !.ret = Node(r.items, found).value]

\* it->second = v (or ref = v), through a valid iterator or reference.
Assign(v) ==
    /\ it.kind = "node" /\ it.valid
    /\ LET k == Node(items_, it.node).key
       IN  /\ SetMap(SetField(items_, it.node, "value", v), table_)
           /\ abs' = AbsSet(abs, k, v)
           /\ last' = [Call("assign", k, v) EXCEPT !.hit = AbsHas(abs, k)]
    /\ UNCHANGED it

\* at written with operator[]: an absent key is inserted and nothing thrown.
At_inserting(k) ==
    LET r == insert(items_, table_, [key |-> k, value |-> DefaultValue])
        found == find(r.items, r.table, k)
    IN  /\ SetMap(r.items, r.table)
        /\ it' = Invalidate(it, r.destroyed)
        /\ last' = [Call("at", k, END) EXCEPT
                       !.hit = AbsHas(abs, k),
                       !.ret = Node(r.items, found).value]
        /\ UNCHANGED abs

\* m.at(k)
At(k) ==
    LET found == find(items_, table_, k)
    IN  /\ last' = [Call("at", k, END) EXCEPT
                       !.hit = AbsHas(abs, k),
                       !.steps = FindLoop(items_, table_, k, hasher_(k) % Len(table_), 0).steps,
                       !.threw = (found = END),
                       !.ret = IF found = END THEN END ELSE Node(items_, found).value]
        /\ UNCHANGED <<items_, table_, it, abs, count, table_size, other>>

\* m.clear()
Clear ==
    LET r == clear(items_, table_)
    IN  /\ SetMap(r.items, r.table)
        /\ it' = Invalidate(it, r.destroyed)
        /\ abs' = <<>>
        /\ last' = [Call("clear", END, END) EXCEPT !.hit = ~empty(items_)]

Next ==
    \/ \E k \in Keys, v \in Values : Insert(k, v)
    \/ \E k \in Keys : EraseKey(k)
    \/ EraseIt
    \/ \E k \in Keys : Find(k)
    \/ \E k \in Keys : Index(k)
    \/ \E v \in Values : Assign(v)
    \/ \E k \in Keys : At(k)
    \/ Clear

Spec == Init /\ [][Next]_vars

\* ------------------------------------------------------- two maps, copying
\* The calls of a program that holds two maps, m (items_, table_) and
\* `other`: it copies one to the other, and after a copy makes one call on
\* either of them before it copies again.
CopyOps == {"copy_construct", "copy_assign", "assign_from"}

AfterCopy == last.op \in CopyOps

\* HashMap other(m)
CopyConstruct ==
    LET r == copy_construct([items |-> items_, table |-> table_])
    IN  /\ other' = [items |-> r.items, table |-> r.table]
        /\ last' = [Call("copy_construct", END, END) EXCEPT !.rehashes = r.rehashes]
        /\ UNCHANGED <<items_, table_, it, abs, count, table_size>>

\* other = m
CopyAssign ==
    LET r == copy_assign(other, [items |-> items_, table |-> table_])
    IN  /\ other' = [items |-> r.items, table |-> r.table]
        /\ last' = [Call("copy_assign", END, END) EXCEPT !.rehashes = r.rehashes]
        /\ UNCHANGED <<items_, table_, it, abs, count, table_size>>

\* m = other
AssignFrom ==
    LET r == copy_assign([items |-> items_, table |-> table_], other)
    IN  /\ SetMap(r.items, r.table)
        /\ it' = Invalidate(it, r.destroyed)
        /\ abs' = Iterate(other.items)
        /\ last' = [Call("assign_from", END, END) EXCEPT !.rehashes = r.rehashes]

\* m = m: &another == this, nothing is done.
SelfAssign ==
    /\ last' = Call("self_assign", END, END)
    /\ UNCHANGED <<items_, table_, it, abs, count, table_size, other>>

\* m.find(k)->second = v, for a key that is present.
Store(k, v) ==
    LET found == find(items_, table_, k)
    IN  /\ found # END
        /\ SetMap(SetField(items_, found, "value", v), table_)
        /\ abs' = AbsSet(abs, k, v)
        /\ last' = [Call("store", k, v) EXCEPT !.hit = TRUE]
        /\ UNCHANGED it

\* other.insert({k, v})
OtherInsert(k, v) ==
    LET r == insert(other.items, other.table, [key |-> k, value |-> v])
    IN  /\ other' = [items |-> r.items, table |-> r.table]
        /\ last' = [Call("other_insert", k, v) EXCEPT !.rehashes = r.rehashes]
        /\ UNCHANGED <<items_, table_, it, abs, count, table_size>>

\* other.erase(k)
OtherErase(k) ==
    LET r == erase(other.items, other.table, k)
    IN  /\ other' = [items |-> r.items, table |-> r.table]
        /\ last' = [Call("other_erase", k, END) EXCEPT !.hit = (r.destroyed # {})]
        /\ UNCHANGED <<items_, table_, it, abs, count, table_size>>

\* other.find(k)->second = v, for a key that is present.
OtherStore(k, v) ==
    LET found == find(other.items, other.table, k)
    IN  /\ found # END
        /\ other' = [other EXCEPT !.items = SetField(other.items, found, "value", v)]
        /\ last' = [Call("other_store", k, v) EXCEPT !.hit = TRUE]
        /\ UNCHANGED <<items_, table_, it, abs, count, table_size>>

CopyNext ==
    \/ CopyConstruct
    \/ CopyAssign
    \/ AssignFrom
    \/ SelfAssign
    \/ AfterCopy /\ \E k \in Keys, v \in Values : Insert(k, v)
    \/ AfterCopy /\ \E k \in Keys : EraseKey(k)
    \/ AfterCopy /\ \E k \in Keys, v \in Values : Store(k, v)
    \/ AfterCopy /\ \E k \in Keys, v \in Values : OtherInsert(k, v)
    \/ AfterCopy /\ \E k \in Keys : OtherErase(k)
    \/ AfterCopy /\ \E k \in Keys, v \in Values : OtherStore(k, v)

CopySpec == Init /\ [][CopyNext]_vars

\* ------------------------------------------------- growth policy, projected
\* The map seen through size() and table_.size() alone, which is all that
\* rehash_if_needed reads: an insert of an absent key adds one entry after
\* the growth check, an erase of a present key removes one.  (The inner
\* inserts of a rehash run at less than a third of the new table's load and
\* do not rehash again.)  The initial states are maps that have grown i
\* times and hold a number of entries near the growth threshold; items_ and
\* table_ are not part of this projection.
RECURSIVE GrowthSize(_)
GrowthSize(i) == IF i = 0 THEN START_BUCKET_COUNT ELSE NewBucketCount(GrowthSize(i - 1))

\* The largest n with n / T <= 3 / 5.
Threshold(T) == (3 * T) \div 5

InWindow(n, T) == Threshold(T) - Window <= n /\ n <= Threshold(T) + Window

GrowthInit ==
    /\ \E i \in 0..MaxGrowths :
          /\ table_size = GrowthSize(i)
          /\ count \in (Threshold(table_size) - Window)..Threshold(table_size)
    /\ items_ = <<>>
    /\ table_ = <<>>
    /\ abs = <<>>
    /\ it = NoIterator
    /\ last = Call("grown", END, END)
    /\ other = EmptyMap

GrowthInsert ==
    /\ InWindow(count, table_size)
    /\ table_size' = IF NeedsRehash(count, table_size) THEN NewBucketCount(table_size)
                     ELSE table_size
    /\ count' = count + 1
    /\ last' = [Call("insert", END, END) EXCEPT !.grew = (table_size' # table_size)]
    /\ UNCHANGED <<items_, table_, it, abs, other>>

GrowthErase ==
    /\ InWindow(count, table_size)
    /\ count > 0
    /\ count' = count - 1
    /\ last' = [Call("erase", END, END) EXCEPT !.hit = TRUE]
    /\ UNCHANGED <<items_, table_, it, abs, table_size, other>>

GrowthNext == GrowthInsert \/ GrowthErase

GrowthSpec == GrowthInit /\ [][GrowthNext]_vars

\* ================================================================== claims
\* The entry of the list that holds `key`, as find reaches it.
Found(items, table, key) == Node(items, find(items, table, key))

\* C1: size() is the number of distinct keys the calls so far leave in the
\* map, and begin()..end() yields exactly those keys, each once, in the
\* order of their latest insertion.
C1_SizeAndOrder ==
    /\ size(items_) = Cardinality({abs[i].key : i \in 1..Len(abs)})
    /\ [i \in 1..Len(items_) |-> items_[i].key] = [i \in 1..Len(abs) |-> abs[i].key]
    /\ \A i, j \in 1..Len(items_) : items_[i].key = items_[j].key => i = j
    /\ empty(items_) = (Len(abs) = 0)

\* A key was erased and inserted again, and is now last of several entries.
C1_Witness ==
    /\ last.op = "insert" /\ last.reinsert
    /\ size(items_) >= 2
    /\ items_[Len(items_)].key = last.key
    /\ \E i \in 1..Len(items_) : items_[i].key > last.key

\* C2: find(k) is end() exactly when k is not a key of the map, and otherwise
\* references the entry with key k and the value last stored for k.
C2_FindCorrect ==
    \A k \in AllKeys :
        LET found == find(items_, table_, k)
        IN  /\ (found = END) = ~AbsHas(abs, k)
            /\ found # END =>
                  /\ Node(items_, found).key = k
                  /\ Node(items_, found).value = AbsValue(abs, k)

\* A key was erased from a probe run in which another key with the same
\* ideal slot remains, among other entries.
C2_Witness ==
    /\ last.op \in {"erase", "erase_it"} /\ last.hit
    /\ \E k \in Keys :
          /\ k # last.key
          /\ AbsHas(abs, k)
          /\ hasher_(k) % Len(table_) = hasher_(last.key) % Len(table_)
          /\ find(items_, table_, k) # END
    /\ size(items_) >= 3

\* C3: insert((k, v2)) with k present changes nothing: not the value of k,
\* the size, the order, the table size or any slot.
C3_InsertPresentNoOp ==
    [][(last'.op = "insert" /\ AbsHas(abs, last'.key)) => UNCHANGED <<items_, table_>>]_vars

\* insert((k, v2)) ran on a map in which k has another value.
C3_Witness ==
    /\ last.op = "insert" /\ last.hit
    /\ AbsHas(abs, last.key)
    /\ AbsValue(abs, last.key) # last.value

\* C4: an iterator taken before an insert or an erase of another key still
\* references a live entry with the same key and value afterwards, also when
\* the insert grows the table.
C4_IteratorStability ==
    [][(/\ it.kind = "node" /\ it.valid
        /\ last'.op \in {"insert", "erase"}
        /\ last'.key # Node(items_, it.node).key)
       => /\ it'.kind = "node" /\ it'.valid /\ it'.node = it.node
          /\ \E i \in 1..Len(items_') :
                /\ items_'[i].key = Node(items_, it.node).key
                /\ items_'[i].value = Node(items_, it.node).value]_vars

\* C5: when an insert (or operator[]) grows the table, the entries from
\* before keep their values and their order, are all still found, and the
\* new key is last.
C5_GrowthPreserves ==
    [][(last'.op \in {"insert", "index"} /\ Len(table_') # Len(table_))
       => /\ Iterate(items_') =
                Append(Iterate(items_),
                       [key |-> last'.key,
                        value |-> IF last'.op = "insert" THEN last'.value ELSE DefaultValue])
          /\ \A k \in AllKeys :
                AbsHas(abs, k) =>
                   /\ find(items_', table_', k) # END
                   /\ Found(items_', table_', k).key = k
                   /\ Found(items_', table_', k).value = AbsValue(abs, k)]_vars

\* An insert has just grown a table that held several entries.
C5_Witness ==
    /\ last.op = "insert" /\ last.grew
    /\ Len(table_) > START_BUCKET_COUNT
    /\ size(items_) > NumFill

\* C6: erase(k) of a present key makes find(k) end(), takes exactly one off
\* size() and leaves the other entries and their order alone; an insert of k
\* right after succeeds, puts k last with the new value, and the new entry's
\* slot index and displacement are those of its own placement.
C6_EraseRoundTrip ==
    [][/\ (last'.op = "erase" /\ AbsHas(abs, last'.key))
          => /\ find(items_', table_', last'.key) = END
             /\ size(items_') = size(items_) - 1
             /\ Iterate(items_') = SelectSeq(Iterate(items_), LAMBDA e : e.key # last'.key)
       /\ (/\ last.op = "erase" /\ last.hit
           /\ last'.op = "insert" /\ last'.key = last.key)
          => LET e == items_'[Len(items_')]
                 T == Len(table_')
             IN  /\ size(items_') = size(items_) + 1
                 /\ SubSeq(Iterate(items_'), 1, size(items_)) = Iterate(items_)
                 /\ e.key = last'.key /\ e.value = last'.value
                 /\ find(items_', table_', last'.key) = e.key
                 /\ Found(items_', table_', last'.key).value = last'.value
                 /\ table_'[e.id_in_table + 1] = e.key
                 /\ ((hasher_(e.key) % T) + e.distance_to_ideal) % T = e.id_in_table]_vars

\* A key erased from among other entries was inserted again with a value.
C6_Witness ==
    /\ last.op = "insert" /\ last.reinsert
    /\ last.value # DefaultValue
    /\ size(items_) >= 3
    /\ items_[Len(items_)].distance_to_ideal > 0

\* C7: operator[](k) with k absent appends (k, Value{}) and returns a
\* reference to that entry's value; with k present it changes nothing and
\* returns the value there; a value written through the reference is what
\* find(k) then reaches.
C7_IndexUpsert ==
    [][/\ (last'.op = "index" /\ ~AbsHas(abs, last'.key))
          => /\ Iterate(items_') =
                   Append(Iterate(items_), [key |-> last'.key, value |-> DefaultValue])
             /\ last'.ret = DefaultValue
       /\ (last'.op = "index" /\ AbsHas(abs, last'.key))
          => /\ UNCHANGED <<items_, table_>>
             /\ last'.ret = AbsValue(abs, last'.key)
       /\ last'.op = "index"
          => /\ it'.kind = "node" /\ it'.valid
             /\ it'.node = find(items_', table_', last'.key)
             /\ Node(items_', it'.node).key = last'.key
       /\ (last.op = "index" /\ last'.op = "assign")
          => /\ Found(items_', table_', last.key).value = last'.value
             /\ Iterate(items_') = AbsSet(Iterate(items_), last.key, last'.value)]_vars

\* operator[] has just added a key to a map that held others.
C7_Witness ==
    /\ last.op = "index" /\ ~last.hit
    /\ size(items_) >= 2
    /\ items_[Len(items_)].key = last.key
    /\ it.kind = "node" /\ it.valid

\* C8: at(k) returns the value of k when k is present and throws when it is
\* absent; either way the entries, their order and the table are unchanged.
C8_AtContract ==
    [][last'.op = "at"
       => /\ UNCHANGED <<items_, table_>>
          /\ last'.threw = ~AbsHas(abs, last'.key)
          /\ ~last'.threw => last'.ret = AbsValue(abs, last'.key)]_vars

\* at(k) has thrown on a map that holds other keys.
C8_Witness ==
    /\ last.op = "at" /\ last.threw
    /\ size(items_) >= 1
    /\ ~AbsHas(abs, last.key)

\* C9: right after an insert (or operator[]) the load factor is strictly
\* below 0.6, that is 5 * count < 3 * table size.
C9_LoadFactorBelow ==
    last.op \in {"insert", "index"} => 5 * count < 3 * table_size

\* The smallest prime at or after n.
SmallestPrimeAtLeast(n) ==
    CHOOSE p \in n..(n + MaxPrimeGap) :
        /\ \A d \in 2..ISqrt(p, 1, 46341) : p % d # 0
        /\ \A q \in n..(p - 1) : \E d \in 2..ISqrt(q, 1, 46341) : q % d = 0

\* C10: a new map has 37 slots; an insert of an absent key changes the table
\* size exactly when (count + 1) / table size >= 0.6 before it, the new size
\* is then the smallest prime >= twice the old one, and no insert makes the
\* table smaller.
C10_GrowthRule ==
    /\ [](last.op = "construct" /\ count = 0 => table_size = 37)
    /\ [][(last'.op = "insert" /\ count' = count + 1)
          => /\ (table_size' # table_size) = (5 * (count + 1) >= 3 * table_size)
             /\ table_size' # table_size => table_size' = SmallestPrimeAtLeast(2 * table_size)
             /\ table_size' >= table_size]_vars

\* The ideal slot of `key` in `table`.
IdealSlot(table, key) == hasher_(key) % Len(table)

\* Whether slot s is occupied, the slot after it, and its occupant's displacement.
Occupied(table, s) == table[s + 1] # END

NextSlot(table, s) == (s + 1) % Len(table)

Displacement(items, table, s) == Node(items, table[s + 1]).distance_to_ideal

\* Every entry of the list is in the slot it records and is what find
\* reaches for its key; every occupied slot holds an entry of the list.
Consistent(items, table) ==
    /\ \A i \in 1..Len(items) :
          /\ table[items[i].id_in_table + 1] = items[i].key
          /\ find(items, table, items[i].key) = items[i].key
    /\ \A s \in 1..Len(table) :
          table[s] # END => \E i \in 1..Len(items) : items[i].key = table[s]
    /\ \A i, j \in 1..Len(items) : items[i].key = items[j].key => i = j

\* C11: a copy (constructed or assigned, either way round) has the pairs of
\* its source in the same order and a table of the same size, is built without a
\* rehash and leaves the source as it was; a self-assignment changes
\* nothing; and a call on one of the two maps leaves the other one's
\* entries, order and table as they were.
C11_CopyIndependent ==
    [][/\ last'.op \in {"copy_construct", "copy_assign"}
          => /\ Iterate(other'.items) = Iterate(items_)
             /\ Len(other'.table) = Len(table_)
             /\ last'.rehashes = 0
             /\ Consistent(other'.items, other'.table)
             /\ UNCHANGED <<items_, table_>>
       /\ last'.op = "assign_from"
          => /\ Iterate(items_') = Iterate(other.items)
             /\ Len(table_') = Len(other.table)
             /\ last'.rehashes = 0
             /\ Consistent(items_', table_')
             /\ UNCHANGED other
       /\ last'.op = "self_assign" => UNCHANGED <<items_, table_, other>>
       /\ last'.op \in {"insert", "erase", "store"} => UNCHANGED other
       /\ last'.op \in {"other_insert", "other_erase", "other_store"}
          => UNCHANGED <<items_, table_>>]_vars

\* The copy of a map whose table had grown has been changed after the
\* copy, and now differs from the map it was copied from.
C11_Witness ==
    /\ last.op \in {"other_insert", "other_erase", "other_store"}
    /\ Len(other.table) > START_BUCKET_COUNT
    /\ Len(other.table) = Len(table_)
    /\ Iterate(other.items) # Iterate(items_)
    /\ size(items_) >= 3

\* C12: clear() leaves size() = 0; whenever the map has no entries, by
\* clear() or by erasures, empty() holds, begin() = end() and every slot is
\* empty; and erase(key), erase(iterator) and clear() leave the table size
\* as it was.
C12_ClearAndEraseAll ==
    /\ [](size(items_) = 0
          => /\ empty(items_)
             /\ begin(items_) = END
             /\ \A s \in 0..(Len(table_) - 1) : ~Occupied(table_, s))
    /\ [][/\ last'.op = "clear" => size(items_') = 0
          /\ last'.op \in {"erase", "erase_it", "clear"}
                => Len(table_') = Len(table_)]_vars

\* clear() has emptied a map whose table had grown.
C12_Witness ==
    /\ last.op = "clear" /\ last.hit
    /\ size(items_) = 0
    /\ Len(table_) > START_BUCKET_COUNT

\* C13: erase(k) with k absent changes nothing: not the entries, their
\* values, order, slot indices or displacements, nor the table size or any
\* slot.
C13_EraseAbsentNoOp ==
    [][(last'.op = "erase" /\ ~AbsHas(abs, last'.key))
       => UNCHANGED <<items_, table_, count, table_size>>]_vars

\* erase(k) ran for an absent k whose ideal slot another entry occupies.
C13_Witness ==
    /\ last.op = "erase" /\ ~last.hit
    /\ size(items_) >= 3
    /\ Occupied(table_, IdealSlot(table_, last.key))

\* C14: every entry of the list is in exactly one slot, every occupied slot
\* holds exactly one entry of the list, and each entry's id_in_table is the
\* slot that holds it.
C14_Bijection ==
    /\ \A i \in 1..Len(items_) :
          /\ items_[i].id_in_table \in 0..(Len(table_) - 1)
          /\ table_[items_[i].id_in_table + 1] = items_[i].key
          /\ Cardinality({s \in 1..Len(table_) : table_[s] = items_[i].key}) = 1
    /\ \A s \in 1..Len(table_) :
          table_[s] # END
             => Cardinality({i \in 1..Len(items_) : items_[i].key = table_[s]}) = 1

\* An insert has just placed its entry ahead of entries it displaced.
C14_Witness ==
    /\ last.op = "insert" /\ ~last.hit
    /\ last.steps >= 2
    /\ size(items_) >= 3
    /\ LET e == items_[Len(items_)]
       IN  e.id_in_table # (IdealSlot(table_, e.key) + last.steps) % Len(table_)

\* C15, as stated: between two adjacent occupied slots the displacement
\* never falls.
C15_NonDecreasing ==
    \A s \in 0..(Len(table_) - 1) :
        (Occupied(table_, s) /\ Occupied(table_, NextSlot(table_, s)))
           => Displacement(items_, table_, s)
                 <= Displacement(items_, table_, NextSlot(table_, s))

\* C15, amended: on the way from an entry's ideal slot to its current slot,
\* the occupant j slots in has a displacement of at least j (no entry is
\* behind one that is closer to its own ideal slot).
C15_NoRicherBefore ==
    \A i \in 1..Len(items_) :
        \A j \in 0..(items_[i].distance_to_ideal - 1) :
            LET s == (IdealSlot(table_, items_[i].key) + j) % Len(table_)
            IN  Occupied(table_, s) => Displacement(items_, table_, s) >= j

\* A run of displaced entries lies against an entry in its ideal slot.
C15_Witness ==
    \E s \in 0..(Len(table_) - 1) :
        /\ Occupied(table_, s) /\ Occupied(table_, NextSlot(table_, s))
        /\ Displacement(items_, table_, s) > 0
        /\ Displacement(items_, table_, NextSlot(table_, s)) = 0

\* C16: every entry's distance_to_ideal is the number of slots from its
\* ideal slot to the slot it is in; an entry inserted into an empty ideal
\* slot has displacement 0.
C16_DisplacementMetadata ==
    /\ [](\A i \in 1..Len(items_) :
             /\ items_[i].distance_to_ideal \in 0..(Len(table_) - 1)
             /\ (IdealSlot(table_, items_[i].key) + items_[i].distance_to_ideal)
                    % Len(table_) = items_[i].id_in_table)
    /\ [][(/\ last'.op = "insert" /\ ~AbsHas(abs, last'.key)
           /\ \/ last'.steps = 0
              \/ Len(table_') = Len(table_)
                    /\ ~Occupied(table_, IdealSlot(table_, last'.key)))
          => LET e == items_'[Len(items_')]
             IN  /\ e.key = last'.key
                 /\ e.distance_to_ideal = 0
                 /\ e.id_in_table = IdealSlot(table_', e.key)]_vars

\* An entry lies displaced past the end of the table, in a slot before its
\* ideal one.
C16_Witness ==
    \E i \in 1..Len(items_) :
        /\ items_[i].distance_to_ideal > 0
        /\ items_[i].id_in_table < IdealSlot(table_, items_[i].key)

\* C17: every slot from an entry's ideal slot to the slot it is in is
\* occupied.
C17_NoGapBeforeEntry ==
    \A i \in 1..Len(items_) :
        \A j \in 0..items_[i].distance_to_ideal :
            Occupied(table_, (IdealSlot(table_, items_[i].key) + j) % Len(table_))

\* An erase has just shifted several entries back.
C17_Witness ==
    /\ last.op \in {"erase", "erase_it"} /\ last.hit
    /\ last.steps >= 2
    /\ size(items_) >= 3

\* C18: the lookup loop passes over fewer slots than the table has, for
\* every key, present or absent; so do the placement loops of an insert and
\* the shift loop of an erase.
C18_ProbingTerminates ==
    /\ \A k \in AllKeys :
          FindLoop(items_, table_, k, IdealSlot(table_, k), 0).steps < Len(table_)
    /\ last.op \in {"find", "at", "insert", "index", "erase", "erase_it"}
          => last.steps < Len(table_)

\* A lookup of an absent key went on past the last slot of the table.
C18_Witness ==
    /\ last.op = "find" /\ ~last.hit
    /\ last.steps >= 2
    /\ (IdealSlot(table_, last.key) + last.steps) % Len(table_) < IdealSlot(table_, last.key)

\* C19: an insert (or operator[]) runs at most one rehash, the inner inserts
\* of a rehash run none; the table is enlarged once, and the map holds the
\* entries from before and the new one.
C19_RehashOnce ==
    [][last'.op \in {"insert", "index"}
       => /\ last'.rehashes <= 1
          /\ (last'.rehashes = 1) = (Len(table_') # Len(table_))
          /\ Len(table_') # Len(table_)
                => /\ ~AbsHas(abs, last'.key)
                   /\ Len(table_') = NewBucketCount(Len(table_))
                   /\ size(items_') = size(items_) + 1
                   /\ \A i \in 1..Len(items_) : items_'[i].key = items_[i].key]_vars

\* operator[] has just grown the table.
C19_Witness ==
    /\ last.op = "index" /\ last.grew
    /\ last.rehashes = 1
    /\ size(items_) > NumFill

\* C20: between two adjacent occupied slots the displacement rises by at
\* most one.
C20_AdjacentDisplacement ==
    \A s \in 0..(Len(table_) - 1) :
        (Occupied(table_, s) /\ Occupied(table_, NextSlot(table_, s)))
           => Displacement(items_, table_, NextSlot(table_, s))
                 <= Displacement(items_, table_, s) + 1

\* An insert has displaced entries, and the displacement rises by one from
\* a slot to the next.
C20_Witness ==
    /\ last.op = "insert" /\ last.steps >= 2
    /\ \E s \in 0..(Len(table_) - 1) :
          /\ Occupied(table_, s) /\ Occupied(table_, NextSlot(table_, s))
          /\ Displacement(items_, table_, NextSlot(table_, s))
                = Displacement(items_, table_, s) + 1

====
